---- MODULE Spec2Model ----
(***************************************************************************)
(* admin/check_node_performance/single_run.py: reserve the nodes of a      *)
(* cluster, deploy them, install sysbench and run the benchmarks cpu,      *)
(* memory, fio, latency, bandwidth in sequence.                            *)
(*                                                                         *)
(* The program is single-threaded.  Its state is the position of main and  *)
(* of the function it is in (pc, t), the locals that flow between the      *)
(* functions (job, acquired, hosts), what it has asked of the libraries    *)
(* (calls), what it has logged (log), the call/return history of main      *)
(* (trace) and how the process ended (exc, exitStatus).  The scheduler,    *)
(* the deployment service and the remote hosts are the environment: their  *)
(* answers are drawn with \E.                                              *)
(*                                                                         *)
(* A host name is the sequence of its characters, with the site name kept  *)
(* as one token: "a-10.lyon" is <<"a", "-", "1", "0", ".", "lyon">>.       *)
(***************************************************************************)
EXTENDS Integers, Sequences, FiniteSets, TLC

VARIABLES pc, t, existing, args, job, acquired, hosts, calls, log, trace,
          exc, exitStatus

vars == <<pc, t, existing, args, job, acquired, hosts, calls, log, trace,
          exc, exitStatus>>

(* ------------------------------ bounds -------------------------------- *)

\* the largest number of nodes the scheduler assigns to the job
MaxHosts == 2

\* the scheduler hands out job ids 1..MaxJobId
MaxJobId == 2

(* ---------------------------- environment ----------------------------- *)

Sites == {"lyon", "nancy"}

JobIds == 1 .. MaxJobId

\* the nodes of a site, as (cluster name, index)
NodeIds == {<<(<<"a">>), 2>>, <<(<<"a">>), 10>>, <<(<<"a", "b">>), 1>>}

DigitChar == <<"0", "1", "2", "3", "4", "5", "6", "7", "8", "9">>

\* characters in ASCII order
Alphabet == <<"-", ".">> \o DigitChar \o <<"a", "b">>

RECURSIVE Digits(_)
\* the decimal notation of n
Digits(n) ==
    IF n < 10 THEN <<DigitChar[n + 1]>>
    ELSE Digits(n \div 10) \o <<DigitChar[(n % 10) + 1]>>

\* the address of node id at a site: <cluster>-<index>.<site>
Hostname(id, site) == id[1] \o <<"-">> \o Digits(id[2]) \o <<".", site>>

HostsAt(site) == {Hostname(id, site) : id \in NodeIds}

RECURSIVE PermsOf(_)
\* the lists without repetition of the elements of the set S
PermsOf(S) ==
    IF S = {} THEN {<<>>}
    ELSE UNION {{<<x>> \o p : p \in PermsOf(S \ {x})} : x \in S}

\* the values job_info['assigned_nodes'] can take for a job at a site
NodeLists(site) ==
    UNION {PermsOf(S) : S \in {T \in SUBSET HostsAt(site) :
                                  Cardinality(T) \in 1 .. MaxHosts}}

Range(s) == {s[i] : i \in 1 .. Len(s)}

(* --------------------------- the sort key ----------------------------- *)

\* s.find(sep) + 1: the first position of sep in s, 0 when absent
Find(s, sep) ==
    IF \E i \in 1 .. Len(s) : s[i] = sep
    THEN CHOOSE i \in 1 .. Len(s) : s[i] = sep /\ \A j \in 1 .. i - 1 : s[j] # sep
    ELSE 0

\* s.split(sep, 1)
SplitOnce(s, sep) ==
    LET i == Find(s, sep)
    IN  IF i = 0 THEN <<s>> ELSE <<SubSeq(s, 1, i - 1), SubSeq(s, i + 1, Len(s))>>

RECURSIVE Split(_, _)
\* s.split(sep)
Split(s, sep) ==
    LET i == Find(s, sep)
    IN  IF i = 0 THEN <<s>>
        ELSE <<SubSeq(s, 1, i - 1)>> \o Split(SubSeq(s, i + 1, Len(s)), sep)

DigitVal(c) == (CHOOSE i \in 1 .. 10 : DigitChar[i] = c) - 1

RECURSIVE ParseInt(_)
\* int(ds) of a string of decimal digits
ParseInt(ds) ==
    IF Len(ds) = 0 THEN 0
    ELSE ParseInt(SubSeq(ds, 1, Len(ds) - 1)) * 10 + DigitVal(ds[Len(ds)])

\* the (cluster name, index) of an address:
\* (h.split('.', 1)[0].split('-')[0], int(h.split('.', 1)[0].split('-')[1]))
ClusterIndexKey(h) ==
    <<Split(SplitOnce(h, ".")[1], "-")[1], ParseInt(Split(SplitOnce(h, ".")[1], "-")[2])>>

\* a key that forgets the index: (h.split('.', 1)[0].split('-')[0], 0)
ClusterOnlyKey(h) == <<Split(SplitOnce(h, ".")[1], "-")[1], 0>>

\* the key of the sort in get_hosts, without the index
GetHostsKeyNoIndex(h) == ClusterOnlyKey(h)

\* the key of the sort in get_hosts
GetHostsKey(h) == ClusterIndexKey(h)

\* the key of the sort in setup_hosts, without the index
SetupHostsKeyNoIndex(h) == ClusterOnlyKey(h)

\* the key of the sort in setup_hosts
SetupHostsKey(h) == ClusterIndexKey(h)

Ord(c) == CHOOSE i \in 1 .. Len(Alphabet) : Alphabet[i] = c

\* a < b on strings
StrLess(a, b) ==
    \E i \in 1 .. Len(b) :
        /\ \A j \in 1 .. i - 1 : j <= Len(a) /\ a[j] = b[j]
        /\ \/ i > Len(a)
           \/ i <= Len(a) /\ Ord(a[i]) < Ord(b[i])

\* k1 < k2 on (str, int) tuples
KeyLess(k1, k2) == StrLess(k1[1], k2[1]) \/ (k1[1] = k2[1] /\ k1[2] < k2[2])

\* where a stable sort puts x in the sorted list s: after every element whose
\* key is not greater; key maps each host to its sort key
InsertSorted(s, x, key) ==
    LET p == Cardinality({i \in 1 .. Len(s) : ~KeyLess(key[x], key[s[i]])})
    IN  SubSeq(s, 1, p) \o <<x>> \o SubSeq(s, p + 1, Len(s))

RECURSIVE ListSort(_, _)
\* list.sort(key=...): stable, ascending
ListSort(s, key) ==
    IF Len(s) = 0 THEN <<>>
    ELSE InsertSorted(ListSort(SubSeq(s, 1, Len(s) - 1), key), s[Len(s)], key)

\* get_host_shortname: the address up to its first dot
GetHostShortname(h) == SplitOnce(h, ".")[1]

\* get_host_site: the site of an address
GetHostSite(h) == SubSeq(h, Find(h, ".") + 1, Find(h, ".") + 1)

\* str(get_host_network_equipments(h)[0]): the switch a host hangs on
GetHostNetworkEquipment(h) == <<"g", "w", "-">> \o GetHostSite(h)

\* hosts_list: the short names of a collection of hosts
HostsList(S) == {GetHostShortname(h) : h \in S}

(* ------------------------------ records ------------------------------- *)

\* get_job_by_name found nothing: (None, None)
NoJob == <<0, "">>

LogRec(level, msg, a) == [level |-> level, msg |-> msg, args |-> a]

Info(msg, a) == LogRec("info", msg, a)

\* what the process of command cmd on host h printed
Stdout(cmd, h) == [cmd |-> cmd, host |-> h]

\* a TaktukRemote(cmd, hs).run() and its aggregate status
Remote(cmd, hs, ok) == [fn |-> "TaktukRemote", cmd |-> cmd, hosts |-> hs, ok |-> ok]

\* the values act.ok can take for an action on hosts hs: every process ok,
\* or some process not ok; without a process there is none to fail
AggregateOk(hs) == {failed = {} : failed \in SUBSET Range(hs)}

\* _print_bench_result(act, name): one line per process
PrintBenchResult(name, cmd, hs) ==
    [i \in 1 .. Len(hs) |->
        Info(name, <<GetHostShortname(hs[i]), Stdout(cmd, hs[i])>>)]

\* the benchmarks with fio moved to the front
TestsFioFirst == <<"fio", "cpu", "memory", "latency", "bandwidth">>

\* for test in ['cpu', 'memory', 'fio', 'latency', 'bandwidth']
Tests == <<"cpu", "memory", "fio", "latency", "bandwidth">>

\* exit(): SystemExit(None), which ends the process with status 0
SysExit ==
    /\ pc' = "exited"
    /\ exc' = "SystemExit"
    /\ exitStatus' = 0

\* an exception nothing catches: traceback, status 1
Raise(e) ==
    /\ pc' = "exited"
    /\ exc' = e
    /\ exitStatus' = 1

(* ------------------------------- Init --------------------------------- *)

Init ==
    /\ pc = "main"
    /\ t = 0
    /\ existing \in {NoJob} \cup (JobIds \X Sites)
    /\ args \in [forcedeploy : BOOLEAN, nodeploy : BOOLEAN]
    /\ job = NoJob
    /\ acquired = <<>>
    /\ hosts = <<>>
    /\ calls = <<>>
    /\ log = <<>>
    /\ trace = <<>>
    /\ exc = ""
    /\ exitStatus = -1

(* ----------------------------- get_hosts ------------------------------ *)

\* get_hosts that never looks at the answer of get_job_by_name
GetJobByNameAlwaysSubmit ==
    /\ pc = "main"
    /\ calls' = Append(calls, [fn |-> "get_job_by_name", job |-> existing])
    /\ job' = NoJob
    /\ trace' = Append(trace, <<"call", "get_hosts">>)
    /\ pc' = "default_job"
    /\ UNCHANGED <<t, existing, args, acquired, hosts, log, exc, exitStatus>>

\* main calls get_hosts; job_id, site = get_job_by_name(job_name)
GetJobByName ==
    /\ pc = "main"
    /\ calls' = Append(calls, [fn |-> "get_job_by_name", job |-> existing])
    /\ job' = existing
    /\ trace' = Append(trace, <<"call", "get_hosts">>)
    /\ pc' = IF existing[1] = 0 THEN "default_job" ELSE "wait_job"
    /\ UNCHANGED <<t, existing, args, acquired, hosts, log, exc, exitStatus>>

\* if not job_id: job_id, site = _default_job(...), which ends in oarsub
DefaultJob ==
    /\ pc = "default_job"
    /\ \E j \in JobIds, s \in Sites :
        /\ calls' = Append(calls, [fn |-> "oarsub", job |-> <<j, s>>])
        /\ job' = <<j, s>>
        /\ log' = log \o <<Info("No job running, making a reservation", <<>>),
                           Info("Reservation done %s:%s", <<s, j>>)>>
    /\ pc' = "wait_job"
    /\ UNCHANGED <<t, existing, args, acquired, hosts, trace, exc, exitStatus>>

\* wait_oar_job_start(job_id, site)
WaitOarJobStart ==
    /\ pc = "wait_job"
    /\ log' = Append(log, Info("Waiting for job start", <<>>))
    /\ calls' = Append(calls, [fn |-> "wait_oar_job_start", job |-> job])
    /\ pc' = "job_info"
    /\ UNCHANGED <<t, existing, args, job, acquired, hosts, trace, exc, exitStatus>>

\* job_info = get_resource_attributes(...); the sort; return hosts
GetResourceAttributes ==
    /\ pc = "job_info"
    /\ \E nodes \in NodeLists(job[2]) :
        /\ calls' = Append(calls, [fn |-> "get_resource_attributes", job |-> job,
                                   assigned_nodes |-> nodes])
        /\ acquired' = ListSort(nodes, [h \in Range(nodes) |-> GetHostsKey(h)])
    /\ log' = Append(log, Info("Hosts: %s", <<HostsList(Range(acquired'))>>))
    /\ trace' = Append(trace, <<"return", "get_hosts">>)
    /\ pc' = "deploy"
    /\ UNCHANGED <<t, existing, args, job, hosts, exc, exitStatus>>

(* ---------------------------- setup_hosts ----------------------------- *)

Warning(msg, a) == LogRec("warning", msg, a)

Error(msg, a) == LogRec("error", msg, a)

\* int(b)
BoolToInt(b) == IF b THEN 1 ELSE 0

\* main calls setup_hosts; deploy(...) splits the hosts into deployed and
\* undeployed; the warning; hosts = list(deployed), in any order; the sort
Deploy ==
    /\ pc = "deploy"
    /\ \E deployed \in SUBSET Range(acquired) :
        \E order \in PermsOf(deployed) :
            LET undeployed == Range(acquired) \ deployed
            IN  /\ calls' = Append(calls,
                        [fn |-> "deploy", hosts |-> acquired,
                         check_deployed_command |-> ~args.forcedeploy,
                         num_tries |-> BoolToInt(~args.nodeploy),
                         deployed |-> deployed, undeployed |-> undeployed])
                /\ log' = log \o <<Info("Deploying hosts", <<>>)>> \o
                        (IF Cardinality(undeployed) > 0
                         THEN <<Warning("%s have not been deployed",
                                        <<HostsList(undeployed)>>)>>
                         ELSE <<>>)
                /\ hosts' = ListSort(order, [h \in deployed |-> SetupHostsKey(h)])
    /\ trace' = Append(trace, <<"call", "setup_hosts">>)
    /\ pc' = "conf_ssh"
    /\ UNCHANGED <<t, existing, args, job, acquired, exc, exitStatus>>

\* setup_hosts that goes on after a failed SSH configuration
ConfSshUnchecked ==
    /\ pc = "conf_ssh"
    /\ \E ok \in AggregateOk(hosts) :
        /\ calls' = Append(calls, Remote("conf_ssh", hosts, ok))
        /\ log' = IF ok THEN log ELSE Append(log, Error("Unable to configure SSH", <<>>))
    /\ pc' = "install"
    /\ UNCHANGED <<t, existing, args, job, acquired, hosts, trace, exc, exitStatus>>

\* conf_ssh = TaktukRemote(...).run(); if not conf_ssh.ok: error, exit()
ConfSsh ==
    /\ pc = "conf_ssh"
    /\ \E ok \in AggregateOk(hosts) :
        /\ calls' = Append(calls, Remote("conf_ssh", hosts, ok))
        /\ IF ok
           THEN /\ pc' = "install"
                /\ UNCHANGED <<log, exc, exitStatus>>
           ELSE /\ log' = Append(log, Error("Unable to configure SSH", <<>>))
                /\ SysExit
    /\ UNCHANGED <<t, existing, args, job, acquired, hosts, trace>>

\* install_sysbench = TaktukRemote(...).run(); if not ok: error, exit();
\* return hosts, and main enters its loop
InstallSysbench ==
    /\ pc = "install"
    /\ \E ok \in AggregateOk(hosts) :
        /\ calls' = Append(calls, Remote("install_sysbench", hosts, ok))
        /\ IF ok
           THEN /\ log' = Append(log, Info("Installing sysbench", <<>>))
                /\ trace' = Append(trace, <<"return", "setup_hosts">>)
                /\ pc' = "loop"
                /\ t' = 1
                /\ UNCHANGED <<exc, exitStatus>>
           ELSE /\ log' = log \o <<Info("Installing sysbench", <<>>),
                                   Error("Unable to install sysbench", <<>>)>>
                /\ SysExit
                /\ UNCHANGED <<t, trace>>
    /\ UNCHANGED <<existing, args, job, acquired, hosts>>

(* ------------------------------- main --------------------------------- *)

\* the loop of main is at test name
AtTest(name) == pc = "loop" /\ t \in 1 .. Len(Tests) /\ Tests[t] = name

Starting(name) == Info("STARTING %s BENCHMARK", <<name>>)

Done(name) == Info("%s BENCHMARK DONE", <<name>>)

\* hosts[0] of an empty list, at the head of benchmark name
RaiseIndexError(name) ==
    /\ Raise("IndexError")
    /\ log' = Append(log, Starting(name))
    /\ trace' = Append(trace, <<"call", name>>)
    /\ UNCHANGED <<t, calls>>

\* one sysbench command on all hosts and one result line per process; its
\* status is not looked at
RunAndPrint(name, label, cmd) ==
    /\ \E ok \in AggregateOk(hosts) :
        calls' = calls \o <<[fn |-> "get_host_attributes", host |-> hosts[1]],
                            Remote(cmd, hosts, ok)>>
    /\ log' = log \o <<Starting(name),
                       Info("Launching " \o label \o " benchmark with \n%s", <<cmd>>)>>
                  \o PrintBenchResult(label, cmd, hosts) \o <<Done(name)>>
    /\ trace' = trace \o <<(<<"call", name>>), <<"return", name>>>>

\* cpu that looks at the status of its command and exits when it is not ok
CpuChecked ==
    /\ AtTest("cpu")
    /\ Len(hosts) > 0
    /\ \E ok \in AggregateOk(hosts) :
        /\ calls' = calls \o <<[fn |-> "get_host_attributes", host |-> hosts[1]],
                               Remote("sysbench cpu", hosts, ok)>>
        /\ IF ok
           THEN /\ log' = log \o <<Starting("cpu")>>
                              \o PrintBenchResult("CPU", "sysbench cpu", hosts)
                              \o <<Done("cpu")>>
                /\ trace' = trace \o <<(<<"call", "cpu">>), <<"return", "cpu">>>>
                /\ t' = t + 1
                /\ UNCHANGED <<pc, exc, exitStatus>>
           ELSE /\ log' = log \o <<Starting("cpu"), Error("CPU benchmark failed", <<>>)>>
                /\ trace' = Append(trace, <<"call", "cpu">>)
                /\ SysExit
                /\ UNCHANGED t
    /\ UNCHANGED <<existing, args, job, acquired, hosts>>

\* main starts cpu; cpu returns True
Cpu ==
    /\ AtTest("cpu")
    /\ IF Len(hosts) = 0
       THEN RaiseIndexError("cpu")
       ELSE /\ RunAndPrint("cpu", "CPU", "sysbench cpu")
            /\ t' = t + 1
            /\ UNCHANGED <<pc, exc, exitStatus>>
    /\ UNCHANGED <<existing, args, job, acquired, hosts>>

\* main starts memory; memory returns True
Memory ==
    /\ AtTest("memory")
    /\ IF Len(hosts) = 0
       THEN RaiseIndexError("memory")
       ELSE /\ RunAndPrint("memory", "MEM", "sysbench memory")
            /\ t' = t + 1
            /\ UNCHANGED <<pc, exc, exitStatus>>
    /\ UNCHANGED <<existing, args, job, acquired, hosts>>

(* -------------------------------- fio --------------------------------- *)

\* if not <phase>.ok: logger.error(msg, '\n'.join([p.host.address + ': ' +
\* p.stout.strip() for p in <phase>.processes])); exit().  A process has no
\* attribute stout and there is one process per host, so with a host the
\* argument of logger.error raises, and logger.error and exit() are not
\* reached.
PhaseNotOk(msg, hs, logged) ==
    IF Len(hs) > 0
    THEN /\ Raise("AttributeError")
         /\ log' = logged
    ELSE /\ SysExit
         /\ log' = Append(logged, Error(msg, <<"">>))

\* fio that starts its run phase whatever the status of prepare
FioPrepareUnchecked ==
    /\ AtTest("fio")
    /\ Len(hosts) > 0
    /\ \E ok \in AggregateOk(hosts) :
        calls' = calls \o <<[fn |-> "get_host_attributes", host |-> hosts[1]],
                            Remote("sysbench fileio prepare", hosts, ok)>>
    /\ trace' = Append(trace, <<"call", "fio">>)
    /\ log' = log \o <<Starting("fio"), Info("Preparing FIO benchmark", <<>>)>>
    /\ pc' = "fio_run"
    /\ UNCHANGED <<t, exc, exitStatus, existing, args, job, acquired, hosts>>

\* main starts fio; prepare = TaktukRemote(...).run(); if not prepare.ok: ...
FioPrepare ==
    /\ AtTest("fio")
    /\ IF Len(hosts) = 0
       THEN RaiseIndexError("fio")
       ELSE /\ trace' = Append(trace, <<"call", "fio">>)
            /\ \E ok \in AggregateOk(hosts) :
                /\ calls' = calls \o <<[fn |-> "get_host_attributes", host |-> hosts[1]],
                                       Remote("sysbench fileio prepare", hosts, ok)>>
                /\ IF ok
                   THEN /\ log' = log \o <<Starting("fio"),
                                           Info("Preparing FIO benchmark", <<>>)>>
                        /\ pc' = "fio_run"
                        /\ UNCHANGED <<exc, exitStatus>>
                   ELSE PhaseNotOk("Unable to prepare the data for FIO benchmark\n%s",
                                   hosts,
                                   log \o <<Starting("fio"),
                                            Info("Preparing FIO benchmark", <<>>)>>)
            /\ UNCHANGED t
    /\ UNCHANGED <<existing, args, job, acquired, hosts>>

\* run = TaktukRemote(...).run(); _print_bench_result(run, 'FIO')
FioRun ==
    /\ pc = "fio_run"
    /\ \E ok \in AggregateOk(hosts) :
        calls' = Append(calls, Remote("sysbench fileio run", hosts, ok))
    /\ log' = log \o <<Info("Launching FIO benchmark with \n%s", <<"sysbench fileio run">>)>>
                  \o PrintBenchResult("FIO", "sysbench fileio run", hosts)
    /\ pc' = "fio_clean"
    /\ UNCHANGED <<t, existing, args, job, acquired, hosts, trace, exc, exitStatus>>

\* clean = TaktukRemote(...).run(); if not clean.ok: ...; return True
FioCleanup ==
    /\ pc = "fio_clean"
    /\ \E ok \in AggregateOk(hosts) :
        /\ calls' = Append(calls, Remote("sysbench fileio cleanup", hosts, ok))
        /\ IF ok
           THEN /\ log' = log \o <<Info("Cleaning FIO benchmark", <<>>), Done("fio")>>
                /\ trace' = Append(trace, <<"return", "fio">>)
                /\ pc' = "loop"
                /\ t' = t + 1
                /\ UNCHANGED <<exc, exitStatus>>
           ELSE /\ PhaseNotOk("Unable to cleant the data for FIO benchmark\n%s",
                              hosts, Append(log, Info("Cleaning FIO benchmark", <<>>)))
                /\ UNCHANGED <<t, trace>>
    /\ UNCHANGED <<existing, args, job, acquired, hosts>>

(* ------------------------------ latency ------------------------------- *)

\* dests = hosts + [equipment of hosts[0], site of hosts[0]]
Dests(hs) == hs \o <<GetHostNetworkEquipment(hs[1]), GetHostSite(hs[1])>>

\* the destinations of the ping commands of source c, in the order of cmds
PingDests(c, dests) == SelectSeq(dests, LAMBDA d : d # c)

\* what the ping from c to destination d printed
PingStdout(c, d) == [cmd |-> "ping", host |-> c, dest |-> d]

\* the destination the log line of process i of source c names: d, which the
\* loop over dests has left at the last destination
LogDest(c, dests, i) == dests[Len(dests)]

\* TaktukRemote('{{cmds}}', [c] * len(cmds)).run() for source c
PingRemote(c, dests, ok) ==
    [fn |-> "TaktukRemote", cmd |-> "ping",
     hosts |-> [i \in 1 .. Len(PingDests(c, dests)) |-> c],
     dests |-> PingDests(c, dests), ok |-> ok]

\* for p in mes.processes: logger.info('LAT %s->%s %s', ...)
PingLog(c, dests) ==
    [i \in 1 .. Len(PingDests(c, dests)) |->
        Info("LAT %s->%s %s",
             <<GetHostShortname(c), GetHostShortname(LogDest(c, dests, i)),
               PingStdout(c, PingDests(c, dests)[i])>>)]

RECURSIVE LatencyLog(_, _, _)
\* the log lines of the first n iterations of for c in hosts
LatencyLog(hs, dests, n) ==
    IF n = 0 THEN <<>>
    ELSE LatencyLog(hs, dests, n - 1) \o PingLog(hs[n], dests)

\* main starts latency; for c in hosts: the pings of c and their log lines
Latency ==
    /\ AtTest("latency")
    /\ IF Len(hosts) = 0
       THEN RaiseIndexError("latency")
       ELSE /\ \E oks \in [1 .. Len(hosts) -> BOOLEAN] :
                calls' = calls \o <<[fn |-> "get_host_network_equipments", host |-> hosts[1]],
                                    [fn |-> "get_host_site", host |-> hosts[1]]>>
                               \o [i \in 1 .. Len(hosts) |->
                                      PingRemote(hosts[i], Dests(hosts), oks[i])]
            /\ log' = log \o <<Starting("latency")>>
                          \o LatencyLog(hosts, Dests(hosts), Len(hosts))
                          \o <<Done("latency")>>
            /\ trace' = trace \o <<(<<"call", "latency">>), <<"return", "latency">>>>
            /\ t' = t + 1
            /\ UNCHANGED <<pc, exc, exitStatus>>
    /\ UNCHANGED <<existing, args, job, acquired, hosts>>

\* bandwidth: an empty body
Bandwidth ==
    /\ AtTest("bandwidth")
    /\ log' = log \o <<Starting("bandwidth"), Done("bandwidth")>>
    /\ trace' = trace \o <<(<<"call", "bandwidth">>), <<"return", "bandwidth">>>>
    /\ t' = t + 1
    /\ UNCHANGED <<pc, existing, args, job, acquired, hosts, calls, exc, exitStatus>>

\* the loop is over, main returns and the process ends with status 0
MainReturn ==
    /\ pc = "loop"
    /\ t = Len(Tests) + 1
    /\ pc' = "exited"
    /\ exitStatus' = 0
    /\ UNCHANGED <<t, existing, args, job, acquired, hosts, calls, log, trace, exc>>

Next ==
    \/ GetJobByName
    \/ DefaultJob
    \/ WaitOarJobStart
    \/ GetResourceAttributes
    \/ Deploy
    \/ ConfSsh
    \/ InstallSysbench
    \/ Cpu
    \/ Memory
    \/ FioPrepare
    \/ FioRun
    \/ FioCleanup
    \/ Latency
    \/ Bandwidth
    \/ MainReturn

Spec == Init /\ [][Next]_vars

(* ----------------------- notions the properties use ------------------ *)

CallsOf(f) == SelectSeq(calls, LAMBDA c : c.fn = f)

\* the runs of the remote command cmd
RemotesOf(cmd) ==
    SelectSeq(calls, LAMBDA c : c.fn = "TaktukRemote" /\ c.cmd = cmd)

LogOf(msg) == SelectSeq(log, LAMBDA r : r.msg = msg)

Called(name) == \E i \in 1 .. Len(trace) : trace[i] = <<"call", name>>

Returned(name) == \E i \in 1 .. Len(trace) : trace[i] = <<"return", name>>

\* the remote commands whose aggregate status the program looks at
CheckedCmds ==
    {"conf_ssh", "install_sysbench", "sysbench fileio prepare", "sysbench fileio cleanup"}

\* the last thing the program asked for is command cmd, and it was not ok
LastFailed(cmd) ==
    /\ Len(calls) > 0
    /\ calls[Len(calls)].fn = "TaktukRemote"
    /\ calls[Len(calls)].cmd = cmd
    /\ ~calls[Len(calls)].ok

\* the (cluster name, index) a host name was made from
NodeIdOf(h) == CHOOSE id \in NodeIds : \E site \in Sites : Hostname(id, site) = h

\* ascending by (cluster name, index as a number), read off the node ids
SortedByNode(hs) ==
    \A i, j \in 1 .. Len(hs) : i < j => KeyLess(NodeIdOf(hs[i]), NodeIdOf(hs[j]))

\* a is b with some elements left out
IsSubsequence(a, b) ==
    \E f \in [1 .. Len(a) -> 1 .. Len(b)] :
        /\ \A i, j \in 1 .. Len(a) : i < j => f[i] < f[j]
        /\ \A i \in 1 .. Len(a) : a[i] = b[f[i]]

\* the short name <cluster>-<index> of a node
ShortOfNode(id) == id[1] \o <<"-">> \o Digits(id[2])

(* ----------------------------- properties ----------------------------- *)

PhaseOrder ==
    <<(<<"call", "get_hosts">>), <<"return", "get_hosts">>,
      <<"call", "setup_hosts">>, <<"return", "setup_hosts">>,
      <<"call", "cpu">>, <<"return", "cpu">>,
      <<"call", "memory">>, <<"return", "memory">>,
      <<"call", "fio">>, <<"return", "fio">>,
      <<"call", "latency">>, <<"return", "latency">>,
      <<"call", "bandwidth">>, <<"return", "bandwidth">>>>

\* C1: the calls and returns of main happen in the order get_hosts,
\* setup_hosts, cpu, memory, fio, latency, bandwidth, each phase at most once
\* and each started only after the one before it has returned: the history of
\* calls and returns is always a prefix of that sequence.
C1_PhasesInOrder ==
    /\ Len(trace) <= Len(PhaseOrder)
    /\ \A i \in 1 .. Len(trace) : trace[i] = PhaseOrder[i]

\* a run that went through every phase
C1_Witness == pc = "exited" /\ trace = PhaseOrder

\* C2: when get_job_by_name returns a job, oarsub is never called and the job
\* waited on and queried is the one returned; oarsub is called only when no
\* job was returned, at most once, and then exactly once before the wait, and
\* the job waited on and queried is the one it returned.
C2_ReservationReuse ==
    LET q == CallsOf("get_job_by_name")
        subs == CallsOf("oarsub")
        waits == CallsOf("wait_oar_job_start")
        infos == CallsOf("get_resource_attributes")
        used == {waits[i].job : i \in 1 .. Len(waits)}
                    \cup {infos[i].job : i \in 1 .. Len(infos)}
    IN  /\ Len(q) <= 1 /\ Len(subs) <= 1
        /\ (Len(subs) + Len(waits) + Len(infos) > 0) => Len(q) = 1
        /\ (Len(q) = 1 /\ q[1].job[1] # 0) =>
                /\ Len(subs) = 0
                /\ used \subseteq {q[1].job}
        /\ (Len(q) = 1 /\ q[1].job[1] = 0 /\ used # {}) =>
                /\ Len(subs) = 1
                /\ used = {subs[1].job}

\* an existing job was found, waited on and queried
C2_Witness ==
    /\ existing # NoJob
    /\ Len(CallsOf("wait_oar_job_start")) = 1
    /\ Len(CallsOf("get_resource_attributes")) = 1

\* C3: whatever the split of the requested hosts into deployed and undeployed,
\* one warning naming the undeployed hosts is logged when there are some and
\* none otherwise; once setup_hosts has returned, hosts is the deployed set,
\* each host once, ascending by (cluster name, index); setup_hosts returns
\* whenever both of its commands were ok, and a run in which some but not all
\* hosts were deployed ends only at the end of main or on a checked command
\* that was not ok.
C3_PartialDeploy ==
    LET d == CallsOf("deploy")
        w == LogOf("%s have not been deployed")
    IN  /\ Len(d) = 0 => Len(w) = 0
        /\ Len(d) > 0 =>
            /\ d[1].deployed \cup d[1].undeployed = Range(d[1].hosts)
            /\ Len(w) = (IF d[1].undeployed # {} THEN 1 ELSE 0)
            /\ \A i \in 1 .. Len(w) :
                /\ w[i].level = "warning"
                /\ w[i].args[1] = {ShortOfNode(NodeIdOf(h)) : h \in d[1].undeployed}
            /\ Returned("setup_hosts") =>
                /\ Range(hosts) = d[1].deployed
                /\ Len(hosts) = Cardinality(d[1].deployed)
                /\ SortedByNode(hosts)
            /\ (Len(RemotesOf("install_sysbench")) = 1
                    /\ RemotesOf("conf_ssh")[1].ok
                    /\ RemotesOf("install_sysbench")[1].ok) => Returned("setup_hosts")
            /\ (pc = "exited" /\ d[1].deployed # {} /\ d[1].undeployed # {}) =>
                \/ t = Len(Tests) + 1
                \/ \E c \in CheckedCmds : LastFailed(c)

\* some hosts were deployed and one was not, a warning names it, setup_hosts
\* has returned the others and main has run to its end
C3_Witness ==
    /\ Len(CallsOf("deploy")) = 1
    /\ Cardinality(CallsOf("deploy")[1].undeployed) = 1
    /\ Len(LogOf("%s have not been deployed")) = 1
    /\ Returned("setup_hosts")
    /\ Len(hosts) = Len(acquired) - 1
    /\ Len(hosts) > 0
    /\ pc = "exited"
    /\ t = Len(Tests) + 1

\* C4: a fio prepare that is not ok is the last thing the program does: the
\* process has ended, fio has not returned, and no run command, cleanup
\* command or later benchmark follows it.
C4_FioPrepareFatal ==
    \A i \in 1 .. Len(calls) :
        (calls[i].fn = "TaktukRemote" /\ calls[i].cmd = "sysbench fileio prepare"
            /\ ~calls[i].ok) =>
            /\ i = Len(calls)
            /\ pc = "exited"
            /\ trace[Len(trace)] = <<"call", "fio">>
            /\ Len(RemotesOf("sysbench fileio run")) = 0
            /\ Len(RemotesOf("sysbench fileio cleanup")) = 0

\* fio prepare was not ok
C4_Witness == pc = "exited" /\ LastFailed("sysbench fileio prepare")

\* C5: the list get_hosts returns holds each assigned node once and is
\* ascending by (cluster name, index as a number), so a-2 comes before a-10;
\* the list setup_hosts returns is a subsequence of it.
C5_HostOrder ==
    LET g == CallsOf("get_resource_attributes")
    IN  Len(g) = 1 =>
            /\ Len(acquired) = Len(g[1].assigned_nodes)
            /\ Range(acquired) = Range(g[1].assigned_nodes)
            /\ SortedByNode(acquired)
            /\ Returned("setup_hosts") => IsSubsequence(hosts, acquired)

\* the scheduler listed a-10 before a-2, and both were deployed
C5_Witness ==
    /\ Len(CallsOf("get_resource_attributes")) = 1
    /\ \E s \in Sites :
        LET n == CallsOf("get_resource_attributes")[1].assigned_nodes
            a2 == Hostname(<<(<<"a">>), 2>>, s)
            a10 == Hostname(<<(<<"a">>), 10>>, s)
        IN  /\ Len(n) >= 2 /\ n[1] = a10 /\ n[2] = a2
            /\ Returned("setup_hosts")
            /\ {a2, a10} \subseteq Range(hosts)

\* C6: the process ends with a non-zero status when a checked command (SSH
\* configuration, package install, fio prepare, fio cleanup) was not ok, and
\* with status 0 only when the loop of main has reached its end.
C6_ExitStatus ==
    pc = "exited" =>
        /\ (\E c \in CheckedCmds : LastFailed(c)) => exitStatus # 0
        /\ exitStatus = 0 => t = Len(Tests) + 1

\* C7: the process never ends on a checked command that was not ok without
\* having logged an error record for it.
C7_ErrorLogged ==
    (pc = "exited" /\ \E c \in CheckedCmds : LastFailed(c)) =>
        /\ Len(log) > 0
        /\ log[Len(log)].level = "error"

\* C8: an SSH configuration or a package install that is not ok is the last
\* thing the program does: the process has ended, no install follows a failed
\* SSH configuration, setup_hosts has not returned and no benchmark has
\* started.
C8_PreparationFatal ==
    \A i \in 1 .. Len(calls) :
        (calls[i].fn = "TaktukRemote" /\ calls[i].cmd \in {"conf_ssh", "install_sysbench"}
            /\ ~calls[i].ok) =>
            /\ i = Len(calls)
            /\ pc = "exited"
            /\ t = 0
            /\ ~Returned("setup_hosts")
            /\ \A k \in 1 .. Len(Tests) : ~Called(Tests[k])
            /\ Len(LogOf("STARTING %s BENCHMARK")) = 0

\* the SSH configuration was not ok
C8_Witness == pc = "exited" /\ LastFailed("conf_ssh")

\* C9: latency issues one ping per source and destination other than the
\* source and logs one line per ping, and the destination each line names is
\* the destination pinged by the process whose output the line reports.
C9_LatencyLabels ==
    LET lat == LogOf("LAT %s->%s %s")
        pings == RemotesOf("ping")
    IN  Returned("latency") =>
            /\ Len(pings) = Len(hosts)
            /\ \A i \in 1 .. Len(pings) :
                Range(pings[i].dests) = Range(Dests(hosts)) \ {hosts[i]}
            /\ \A i \in 1 .. Len(lat) :
                lat[i].args[2] = GetHostShortname(lat[i].args[3].dest)

\* what C10 says of cpu, memory and latency
UncheckedBenchmarks ==
    /\ \A name \in {"cpu", "memory", "latency"} : Called(name) => Returned(name)
    /\ Returned("cpu") =>
        /\ Len(RemotesOf("sysbench cpu")) = 1
        /\ Len(LogOf("CPU")) = Len(hosts)
    /\ Returned("memory") =>
        /\ Len(RemotesOf("sysbench memory")) = 1
        /\ Len(LogOf("MEM")) = Len(hosts)
    /\ Returned("latency") =>
        /\ Len(RemotesOf("ping")) = Len(hosts)
        /\ \A i \in 1 .. Len(hosts) :
            /\ RemotesOf("ping")[i].hosts \in [1 .. Len(hosts) + 1 -> {hosts[i]}]
            /\ Len(SelectSeq(LogOf("LAT %s->%s %s"),
                             LAMBDA r : r.args[3].host = hosts[i])) = Len(hosts) + 1
    /\ (pc = "exited" /\ t \in 1 .. Len(Tests)) =>
        \/ LastFailed("sysbench fileio prepare")
        \/ LastFailed("sysbench fileio cleanup")

====
